---- MODULE Spec2Model ----
(***************************************************************************)
(* The then-redis client (src/modules/client.js): the pending-call queue,  *)
(* the write buffer, the connect result and the socket handlers of         *)
(* Client.prototype.connect, driven by the caller (connect, send,          *)
(* disconnect, monitor) and by the transport (connect, error, data, close).*)
(***************************************************************************)
EXTENDS Integers, Sequences, FiniteSets, TLC

\* Bound of the exploration: the calls of send (the handshake's included),
\* the replies the parser hands to _handleReply and the sockets
\* net.createConnection opens number at most this many together.
Budget == 6

NoValue == 0       \* undefined, where a deferred of send is expected
NoConnection == 0  \* this.connection is not set
DefaultDatabase == 0
IdleTimeout == 1   \* an idle timeout that is configured (options.timeout)

VARIABLES
    password,         \* this.password ("" when none is configured)
    database,         \* this.database
    timeout,          \* this.timeout: the socket's idle timeout, 0 for none
    returnBuffers,    \* this.returnBuffers
    isMonitor,        \* this.isMonitor
    _commandValues,   \* this._commandValues: deferreds awaiting a reply, oldest first
    _pendingWrites,   \* this._pendingWrites: (deferred, write) pairs buffered by send
    _connectValue,    \* this._connectValue: the deferred of connect, or NoDeferred
    connection,       \* this.connection: index into sockets, or NoConnection
    values,           \* every deferred made by send, in creation order
    sockets,          \* every socket made by net.createConnection
    effects,          \* what the latest handler did, in order: resolve, reject,
                      \* emit, and the connect result a call of connect() returned
    received,         \* the number of replies handed to _handleReply
    routed,           \* the number of replies that settled a call of the queue
    flushed,          \* the number of calls _flushError took off the queue
    last              \* the latest operation or transport event, with its input

vars == <<password, database, timeout, returnBuffers, isMonitor, _commandValues,
          _pendingWrites, _connectValue, connection, values,
          sockets, effects, received, routed, flushed, last>>

------------------------------------------------------------------------------
\* Replies as the parser decodes them. elems holds the text of a scalar, or
\* the elements of an array reply.
Status(s) == [type |-> "status", elems |-> <<s>>]
ErrorValue(msg) == [type |-> "error", elems |-> <<msg>>]
Array(es) == [type |-> "array", elems |-> es]
Undefined == [type |-> "undefined", elems |-> <<>>]

OK == Status("OK")

Replies ==
    { OK, ErrorValue("ERR"),
      Array(<<"message", "chan1", "hello">>),
      Array(<<"pmessage", "chan*", "chan1", "hello">>),
      Array(<<"subscribe", "chan1", "1">>),
      Array(<<"subscribe", "chan2", "2">>) }

TransportError == ErrorValue("ECONNRESET")
ClosedError == ErrorValue("The connection was closed")

\* The calls the caller issues.
Commands ==
    { [command |-> "GET", args |-> <<"foo">>],
      [command |-> "SUBSCRIBE", args |-> <<"chan1", "chan2">>] }

\* reply[0] of a reply: the first element of an array; of a string it is the
\* first character, which is no type tag.
Tag(reply) ==
    IF reply.type = "array" /\ Len(reply.elems) > 0 THEN reply.elems[1] ELSE ""

messageTypes == {"message", "pmessage"}

\* A variant that knows only the message type.
_isMessageReply_messageOnly(reply) == Tag(reply) = "message"

_isMessageReply(reply) == Tag(reply) \in messageTypes

subReplyTypes == {"subscribe", "unsubscribe", "psubscribe", "punsubscribe"}

_isSubReply(reply) == Tag(reply) \in subReplyTypes

\* The write of send: the array header (1 + numArgs) and one bulk string per
\* command name and argument.
Encode(command, args) == <<1 + Len(args), command>> \o args

------------------------------------------------------------------------------
\* The client's mutable state as one record, so that a handler is the
\* composition of the calls it makes.
Cur ==
    [commandValues |-> _commandValues, pendingWrites |-> _pendingWrites,
     connectValue |-> _connectValue, connection |-> connection,
     values |-> values, sockets |-> sockets,
     effects |-> <<>>]

Range(queue) == {queue[i] : i \in DOMAIN queue}

\* The deferreds of send the client can still reach: those in its two queues
\* and the handshake results its connect result follows.
Held(S) ==
    Range(S.commandValues) \cup {w.value : w \in Range(S.pendingWrites)}
        \cup {S.connectValue.auth, S.connectValue.select}

\* send returns value.promise: a settled deferred the client no longer holds
\* is the caller's alone, and only its command, its state and its settle
\* count are kept.
Released(S) ==
    [v \in DOMAIN S.values |->
        IF S.values[v].state = "pending" \/ v \in Held(S)
        THEN S.values[v]
        ELSE [S.values[v] EXCEPT !.args = <<>>, !.value = Undefined,
                                 !.pos = 0, !.socket = 0]]

Commit(S) ==
    /\ _commandValues' = S.commandValues
    /\ _pendingWrites' = S.pendingWrites
    /\ _connectValue' = S.connectValue
    /\ connection' = S.connection
    /\ values' = Released(S)
    /\ sockets' = S.sockets
    /\ effects' = S.effects

\* RSVP.defer() in send. socket and pos are where the call's write went
\* (0 while the call is buffered), settles counts the resolve and reject
\* calls made on it.
Deferred(command, args) ==
    [command |-> command, args |-> args, state |-> "pending",
     value |-> Undefined, settles |-> 0, pos |-> 0, socket |-> 0]

Effect(what, v, name, args) ==
    [what |-> what, value |-> v, name |-> name, args |-> args]

\* value.resolve / value.reject: the first call settles, later ones do nothing.
Settle(S, v, what, state, result) ==
    IF S.values[v].state = "pending"
    THEN [S EXCEPT !.values[v].state = state, !.values[v].value = result,
                   !.values[v].settles = @ + 1,
                   !.effects = Append(@, Effect(what, v, "", result.elems))]
    ELSE [S EXCEPT !.values[v].settles = @ + 1,
                   !.effects = Append(@, Effect(what, v, "", result.elems))]

resolve(S, v, reply) == Settle(S, v, "resolve", "fulfilled", reply)

reject(S, v, error) == Settle(S, v, "reject", "rejected", error)

\* this.emit(name, args...)
emit(S, name, args) ==
    [S EXCEPT !.effects = Append(@, Effect("emit", NoValue, name, args))]

\* this.emit.apply(this, reply)
emitReply(S, reply) == emit(S, reply.elems[1], Tail(reply.elems))

\* Array.prototype.shift on this._commandValues
shifted(queue) == IF queue = <<>> THEN NoValue ELSE Head(queue)

\* A variant that reads the oldest call and leaves it on the queue.
rest_peek(queue) == queue

rest(queue) == IF queue = <<>> THEN <<>> ELSE Tail(queue)

\* A variant without the error check.
settleWith_resolve(S, value, reply) == resolve(S, value, reply)

\* if (reply && reply.constructor === Error) value.reject(reply);
\* else value.resolve(reply);
settleWith(S, value, reply) ==
    IF reply.type = "error" THEN reject(S, value, reply) ELSE resolve(S, value, reply)

\* A variant that drops a reply no call awaits instead of reporting it.
_handleReply_silent(S, reply) ==
    IF _isMessageReply(reply)
    THEN emitReply(S, reply)
    ELSE
      LET value == shifted(S.commandValues)
          S1 == [S EXCEPT !.commandValues = rest(@)]
      IN  IF value # NoValue
          THEN IF returnBuffers
               THEN resolve(S1, value, reply)
               ELSE LET S2 == settleWith(S1, value, reply)
                    IN  IF _isSubReply(reply) THEN emitReply(S2, reply) ELSE S2
          ELSE IF _isSubReply(reply)
          THEN emitReply(S1, reply)
          ELSE IF isMonitor
          THEN emit(S1, "monitor", reply.elems)
          ELSE S1

_handleReply(S, reply) ==
    IF _isMessageReply(reply)
    THEN emitReply(S, reply)
    ELSE
      LET value == shifted(S.commandValues)
          S1 == [S EXCEPT !.commandValues = rest(@)]
      IN  IF value # NoValue
          THEN IF returnBuffers
               THEN resolve(S1, value, reply)
               ELSE LET S2 == settleWith(S1, value, reply)
                    IN  IF _isSubReply(reply) THEN emitReply(S2, reply) ELSE S2
          ELSE IF _isSubReply(reply)
          THEN emitReply(S1, reply)
          ELSE IF isMonitor
          THEN emit(S1, "monitor", reply.elems)
          ELSE emit(S1, "error", <<"Unexpected reply">> \o reply.elems)

\* A variant with an if where the loop is: only the oldest call is rejected.
_flushError_once(S, error) ==
    IF S.commandValues = <<>>
    THEN S
    ELSE reject([S EXCEPT !.commandValues = Tail(@)], Head(S.commandValues), error)

RECURSIVE _flushError(_, _)
_flushError(S, error) ==
    IF S.commandValues = <<>>
    THEN S
    ELSE _flushError(reject([S EXCEPT !.commandValues = Tail(@)],
                            Head(S.commandValues), error), error)

\* A variant that puts the call at the front of the queue.
_write_unshift(S, value, write) ==
    IF S.connection = NoConnection
    THEN [S EXCEPT !.commandValues = <<value>> \o @]
    ELSE [S EXCEPT !.commandValues = <<value>> \o @,
                   !.sockets[S.connection].written = Append(@, write),
                   !.values[value].pos = Len(S.sockets[S.connection].written) + 1,
                   !.values[value].socket = S.connection]

\* Without a connection the push is followed by a TypeError.
_write(S, value, write) ==
    IF S.connection = NoConnection
    THEN [S EXCEPT !.commandValues = Append(@, value)]
    ELSE [S EXCEPT !.commandValues = Append(@, value),
                   !.sockets[S.connection].written = Append(@, write),
                   !.values[value].pos = Len(S.sockets[S.connection].written) + 1,
                   !.values[value].socket = S.connection]

\* A variant that takes the buffered calls from the end (pop for shift).
RECURSIVE _flushPendingWrites_pop(_)
_flushPendingWrites_pop(S) ==
    IF S.pendingWrites = <<>>
    THEN S
    ELSE _flushPendingWrites_pop(
             _write([S EXCEPT !.pendingWrites = SubSeq(@, 1, Len(@) - 1)],
                    S.pendingWrites[Len(S.pendingWrites)].value,
                    S.pendingWrites[Len(S.pendingWrites)].write))

RECURSIVE _flushPendingWrites(_)
_flushPendingWrites(S) ==
    IF S.pendingWrites = <<>>
    THEN S
    ELSE _flushPendingWrites(
             _write([S EXCEPT !.pendingWrites = Tail(@)],
                    Head(S.pendingWrites).value, Head(S.pendingWrites).write))

\* RSVP.defer() in connect. id tells the deferreds of connect apart; once
\* resolved, auth and select are the handshake results the promise follows.
ConnectDeferred(id) ==
    [id |-> id, state |-> "pending", error |-> Undefined,
     auth |-> NoValue, select |-> NoValue]

NoDeferred == [ConnectDeferred(0) EXCEPT !.state = "undefined"]

\* A variant without the check for an existing connect result.
connect_always(S) ==
    LET S1 == [S EXCEPT
                 !.connectValue = ConnectDeferred(Len(S.sockets) + 1),
                 !.sockets = Append(@, [state |-> "connecting", written |-> <<>>])]
    IN  [S1 EXCEPT !.effects = Append(@, Effect("return", S1.connectValue.id, "", <<>>))]

\* The body of connect(): a deferred and a socket, unless a connect result exists.
connect(S) ==
    LET S1 == IF S.connectValue = NoDeferred
              THEN [S EXCEPT
                      !.connectValue = ConnectDeferred(Len(S.sockets) + 1),
                      !.sockets = Append(@, [state |-> "connecting", written |-> <<>>])]
              ELSE S
    IN  [S1 EXCEPT !.effects = Append(@, Effect("return", S1.connectValue.id, "", <<>>))]

send(S, command, args) ==
    LET value == Len(S.values) + 1
        write == Encode(command, args)
        S1 == [S EXCEPT !.values = Append(@, Deferred(command, args))]
    IN  IF S1.connection # NoConnection
        THEN _write(S1, value, write)
        ELSE connect([S1 EXCEPT !.pendingWrites =
                                   Append(@, [value |-> value, write |-> write])])

\* The convenience commands the connect handler uses.
auth(S, pass) == send(S, "AUTH", <<pass>>)

select(S, db) == send(S, "SELECT", <<db>>)

\* String(database)
DatabaseArg(db) == IF db = 2 THEN "2" ELSE "0"

\* A variant that flushes the buffered calls before the handshake.
onConnect_flushFirst(S, s) ==
    LET S1 == _flushPendingWrites([S EXCEPT !.connection = s])
        S2 == IF password # "" THEN auth(S1, password) ELSE S1
        authValue == IF password # "" THEN Len(S2.values) ELSE NoValue
        S3 == IF database # DefaultDatabase
              THEN select(S2, DatabaseArg(database)) ELSE S2
        selectValue == IF database # DefaultDatabase THEN Len(S3.values) ELSE NoValue
    IN  IF S3.connectValue.state = "pending"
        THEN [S3 EXCEPT !.connectValue.state = "resolved",
                        !.connectValue.auth = authValue,
                        !.connectValue.select = selectValue]
        ELSE S3

\* A variant that leaves the buffered calls for after the handshake.
onConnect_handshakeOnly(S, s) ==
    LET S1 == [S EXCEPT !.connection = s]
        S2 == IF password # "" THEN auth(S1, password) ELSE S1
        authValue == IF password # "" THEN Len(S2.values) ELSE NoValue
        S3 == IF database # DefaultDatabase
              THEN select(S2, DatabaseArg(database)) ELSE S2
        selectValue == IF database # DefaultDatabase THEN Len(S3.values) ELSE NoValue
    IN  IF S3.connectValue.state = "pending"
        THEN [S3 EXCEPT !.connectValue.state = "resolved",
                        !.connectValue.auth = authValue,
                        !.connectValue.select = selectValue]
        ELSE S3

\* connection.on('connect')
onConnect(S, s) ==
    LET S1 == [S EXCEPT !.connection = s]
        S2 == IF password # "" THEN auth(S1, password) ELSE S1
        authValue == IF password # "" THEN Len(S2.values) ELSE NoValue
        S3 == IF database # DefaultDatabase
              THEN select(S2, DatabaseArg(database)) ELSE S2
        selectValue == IF database # DefaultDatabase THEN Len(S3.values) ELSE NoValue
        S4 == _flushPendingWrites(S3)
    IN  IF S4.connectValue.state = "pending"
        THEN [S4 EXCEPT !.connectValue.state = "resolved",
                        !.connectValue.auth = authValue,
                        !.connectValue.select = selectValue]
        ELSE S4

\* connection.on('error')
onError(S, error) ==
    LET S1 == IF S.connection # NoConnection THEN _flushError(S, error) ELSE S
    IN  IF S1.connectValue.state = "pending"
        THEN [S1 EXCEPT !.connectValue.state = "rejected",
                        !.connectValue.error = error]
        ELSE S1

\* A variant that emits close before it fails the pending calls.
onClose_emitFirst(S) ==
    LET S1 == [S EXCEPT !.connectValue = NoDeferred, !.connection = NoConnection]
    IN  _flushError(emit(S1, "close", <<>>), ClosedError)

\* connection.on('close')
onClose(S) ==
    LET S1 == [S EXCEPT !.connectValue = NoDeferred, !.connection = NoConnection]
        S2 == _flushError(S1, ClosedError)
    IN  emit(S2, "close", <<>>)

\* The promise of a connect deferred. Once resolved with
\* RSVP.all([authValue, selectValue]) it follows the two handshake results.
HandshakeState(S, v) == IF v = NoValue THEN "fulfilled" ELSE S.values[v].state

HandshakeValue(S, v) == IF v = NoValue THEN OK ELSE S.values[v].value

ConnectPromise(S) ==
    LET d == S.connectValue
    IN  IF d.state = "pending" THEN [state |-> "pending", value |-> <<>>]
        ELSE IF d.state = "rejected" THEN [state |-> "rejected", value |-> <<d.error>>]
        ELSE IF HandshakeState(S, d.auth) = "rejected"
        THEN [state |-> "rejected", value |-> <<S.values[d.auth].value>>]
        ELSE IF HandshakeState(S, d.select) = "rejected"
        THEN [state |-> "rejected", value |-> <<S.values[d.select].value>>]
        ELSE IF HandshakeState(S, d.auth) = "fulfilled"
                /\ HandshakeState(S, d.select) = "fulfilled"
        THEN [state |-> "fulfilled",
              value |-> <<HandshakeValue(S, d.auth), HandshakeValue(S, d.select)>>]
        ELSE [state |-> "pending", value |-> <<>>]

------------------------------------------------------------------------------
\* The settle calls among the effects of a handler.
Settles(fx) == SelectSeq(fx, LAMBDA e : e.what \in {"resolve", "reject"})

Op(name) == [op |-> name, reply |-> Undefined, socket |-> 0]

\* new Client(options), but for the idle timeout.
Constructed ==
    /\ password \in {"", "secret"}
    /\ database \in {DefaultDatabase, 2}
    /\ returnBuffers \in BOOLEAN
    /\ isMonitor = FALSE
    /\ _commandValues = <<>>
    /\ _pendingWrites = <<>>
    /\ _connectValue = NoDeferred
    /\ connection = NoConnection
    /\ values = <<>>
    /\ sockets = <<>>
    /\ effects = <<>>
    /\ received = 0
    /\ routed = 0
    /\ flushed = 0
    /\ last = Op("new")

\* options.timeout || 0: no idle timeout unless one is configured.
Init == Constructed /\ timeout = 0

\* new Client({timeout: IdleTimeout, ...})
InitIdle == Constructed /\ timeout = IdleTimeout

\* What the run has used of its budget, and what a call of connect() or
\* send() adds to it: it opens a socket when it finds no connection and no
\* connect result.
Spent == Len(values) + received + Len(sockets)

HandshakeCalls ==
    (IF password # "" THEN 1 ELSE 0) + (IF database # DefaultDatabase THEN 1 ELSE 0)

Opens == IF connection = NoConnection /\ _connectValue = NoDeferred THEN 1 ELSE 0

Connect ==
    /\ Spent + Opens <= Budget
    /\ Commit(connect(Cur))
    /\ last' = Op("connect")
    /\ UNCHANGED <<password, database, timeout, returnBuffers, isMonitor, received,
                 routed, flushed>>

Send ==
    /\ Spent + 1 + Opens <= Budget
    /\ \E c \in Commands : Commit(send(Cur, c.command, c.args))
    /\ last' = Op("send")
    /\ UNCHANGED <<password, database, timeout, returnBuffers, isMonitor, received,
                 routed, flushed>>

\* The monitor command: enters monitor mode and issues MONITOR.
monitor ==
    /\ Spent + 1 + Opens <= Budget
    /\ ~isMonitor
    /\ isMonitor' = TRUE
    /\ Commit(send(Cur, "MONITOR", <<>>))
    /\ last' = Op("monitor")
    /\ UNCHANGED <<password, database, timeout, returnBuffers, received,
                 routed, flushed>>

\* connection.end(): the socket closes once the peer has answered.
end(S) ==
    IF S.sockets[S.connection].state = "open"
    THEN [S EXCEPT !.sockets[S.connection].state = "ended"]
    ELSE S

disconnect(S) == IF S.connection # NoConnection THEN end(S) ELSE S

\* Without a connection, or on a socket that is already ending, disconnect()
\* changes nothing.
Disconnect ==
    /\ connection # NoConnection
    /\ sockets[connection].state = "open"
    /\ Commit(disconnect(Cur))
    /\ last' = Op("disconnect")
    /\ UNCHANGED <<password, database, timeout, returnBuffers, isMonitor, received,
                 routed, flushed>>

\* The transport: a socket connects or fails, then carries data until it
\* fails, is ended or is closed by the peer; a failed socket closes.
SocketConnect(s) ==
    /\ sockets[s].state = "connecting"
    /\ Spent + HandshakeCalls <= Budget
    /\ Commit(onConnect([Cur EXCEPT !.sockets[s].state = "open"], s))
    /\ last' = [Op("connect event") EXCEPT !.socket = s]
    /\ UNCHANGED <<password, database, timeout, returnBuffers, isMonitor, received,
                 routed, flushed>>

SocketError(s) ==
    /\ sockets[s].state \in {"connecting", "open", "ended"}
    /\ Commit(onError([Cur EXCEPT !.sockets[s].state = "errored"], TransportError))
    /\ last' = [Op("error event") EXCEPT !.reply = TransportError, !.socket = s]
    /\ flushed' = flushed + Len(Settles(effects'))
    /\ UNCHANGED <<password, database, timeout, returnBuffers, isMonitor, received,
                 routed>>

\* connection.on('data'): the parser hands each decoded reply to _handleReply.
SocketData(s) ==
    /\ sockets[s].state \in {"open", "ended"}
    /\ Spent < Budget
    /\ \E reply \in Replies :
          /\ Commit(_handleReply(Cur, reply))
          /\ last' = [Op("reply") EXCEPT !.reply = reply, !.socket = s]
    /\ received' = received + 1
    /\ routed' = routed + Len(Settles(effects'))
    /\ UNCHANGED <<password, database, timeout, returnBuffers, isMonitor, flushed>>

SocketClose(s) ==
    /\ sockets[s].state \in {"open", "ended", "errored"}
    /\ Commit(onClose([Cur EXCEPT !.sockets[s].state = "closed"]))
    /\ last' = [Op("close event") EXCEPT !.socket = s]
    /\ flushed' = flushed + Len(Settles(effects'))
    /\ UNCHANGED <<password, database, timeout, returnBuffers, isMonitor, received,
                 routed>>

Next ==
    \/ Connect
    \/ Send
    \/ monitor
    \/ Disconnect
    \/ \E s \in DOMAIN sockets : SocketConnect(s)
    \/ \E s \in DOMAIN sockets : SocketError(s)
    \/ \E s \in DOMAIN sockets : SocketData(s)
    \/ \E s \in DOMAIN sockets : SocketClose(s)

Spec == Init /\ [][Next]_vars

\* The socket of connection.setTimeout(this.timeout) was idle for that long
\* and emits 'timeout'. connect() registers no listener for it, and the
\* socket stays as it is: no handler of the client runs.
SocketTimeout(s) ==
    /\ timeout # 0
    /\ sockets[s].state \in {"connecting", "open", "ended"}
    /\ Commit(Cur)
    /\ last' = [Op("timeout event") EXCEPT !.socket = s]
    /\ UNCHANGED <<password, database, timeout, returnBuffers, isMonitor, received,
                 routed, flushed>>

NextIdle ==
    \/ Next
    \/ \E s \in DOMAIN sockets : SocketTimeout(s)

\* The client with an idle timeout configured.
SpecIdle == InitIdle /\ [][NextIdle]_vars

------------------------------------------------------------------------------
\* What the claims speak of.

\* The calls of the pending-call queue were all written to the socket that
\* is the connection, and v was written before every other one of them.
Oldest(v) ==
    \A w \in Range(_commandValues) :
        /\ values[w].socket = values[v].socket
        /\ values[v].pos > 0
        /\ w # v => values[v].pos < values[w].pos

\* An array reply whose first element is message or pmessage.
MessageOrPmessage(reply) ==
    /\ reply.type = "array"
    /\ reply.elems # <<>>
    /\ reply.elems[1] \in {"message", "pmessage"}

Emits(fx) == SelectSeq(fx, LAMBDA e : e.what = "emit")

EventOf(reply) == Effect("emit", NoValue, reply.elems[1], Tail(reply.elems))

\* C1: a reply that is not a message or pmessage reply settles the oldest call
\* of the pending-call queue, the one written first, with that reply, takes it
\* off the queue and touches no other call; a message or pmessage reply leaves
\* the queue and every call as they were, so the next reply still goes to the
\* same call.
C1_FifoCorrelation ==
    [][last'.op = "reply" =>
         IF MessageOrPmessage(last'.reply)
         THEN _commandValues' = _commandValues /\ values' = values
         ELSE _commandValues # <<>> =>
                LET v == Head(_commandValues)
                IN  /\ Oldest(v)
                    /\ _commandValues' = Tail(_commandValues)
                    /\ values[v].state = "pending"
                    /\ values'[v].state # "pending"
                    /\ Len(Settles(effects')) = 1
                    /\ Settles(effects')[1].value = v
                    /\ Settles(effects')[1].args = last'.reply.elems
                    /\ \A w \in DOMAIN values : w # v => values'[w] = values[w]]_vars

\* Two calls were pending, and an ordinary reply has settled the older one
\* and left the younger one at the head of the queue.
C1_Witness ==
    /\ last.op = "reply"
    /\ ~MessageOrPmessage(last.reply)
    /\ Len(Settles(effects)) = 1
    /\ Len(_commandValues) = 1
    /\ Settles(effects)[1].value < Head(_commandValues)

\* C8: a message or pmessage reply is emitted as the event its tag names, with
\* its other elements as arguments, and that is all it does: both queues, every
\* call and the connection stay as they were.
C8_MessageLeavesQueue ==
    [][(last'.op = "reply" /\ MessageOrPmessage(last'.reply)) =>
         /\ effects' = <<EventOf(last'.reply)>>
         /\ effects'[1].name \in {"message", "pmessage"}
         /\ _commandValues' = _commandValues
         /\ _pendingWrites' = _pendingWrites
         /\ values' = values
         /\ connection' = connection
         /\ _connectValue' = _connectValue]_vars

\* A message reply has arrived while a call was pending.
C8_Witness ==
    /\ last.op = "reply"
    /\ MessageOrPmessage(last.reply)
    /\ _commandValues # <<>>
    /\ effects = <<EventOf(last.reply)>>

\* C9: with returnBuffers off, an error reply that finds a call pending rejects
\* the oldest call with that error and nothing else: the other calls keep their
\* order in the queue and stay pending, so that each is settled by a later
\* reply of its own.
C9_ErrorReplyIsLocal ==
    [][(last'.op = "reply" /\ last'.reply.type = "error" /\ ~returnBuffers
            /\ _commandValues # <<>>) =>
         LET v == Head(_commandValues)
         IN  /\ effects' = <<Effect("reject", v, "", last'.reply.elems)>>
             /\ values'[v].state = "rejected"
             /\ values'[v].settles = 1
             /\ _commandValues' = Tail(_commandValues)
             /\ \A w \in Range(_commandValues') :
                    values'[w] = values[w] /\ values'[w].state = "pending"]_vars

\* On a connection that never failed, the first call was rejected by an error
\* reply and the second has since been fulfilled by its own reply.
C9_Witness ==
    /\ ~returnBuffers /\ password = "" /\ database = DefaultDatabase
    /\ Len(sockets) = 1 /\ sockets[1].state = "open"
    /\ Len(values) = 2
    /\ values[1].state = "rejected"
    /\ values[2].state = "fulfilled"
    /\ last.op = "reply"

\* The handshake a connection starts with: AUTH when a password is
\* configured, then SELECT when a database other than 0 is.
HandshakeWrites ==
    (IF password = "" THEN <<>> ELSE <<<<2, "AUTH", password>>>>)
        \o (IF database = 0 THEN <<>> ELSE <<<<2, "SELECT", "2">>>>)

\* The call the latest send made.
Newest(vs) == vs[Len(vs)]

\* C2: a call sent while there is no connection is appended to the write
\* buffer and neither written nor put on the pending-call queue; when the
\* socket connects, the buffered calls are written after the handshake in the
\* order they were issued and are appended to the pending-call queue in that
\* order, and the buffer is empty; a call sent on the connection goes behind
\* them, at the end of the queue and of the writes.
C2_BufferedCallsFlushInOrder ==
    [][/\ (last'.op \in {"send", "monitor"} /\ connection = NoConnection) =>
            /\ Len(values') = Len(values) + 1
            /\ _pendingWrites' =
                   Append(_pendingWrites,
                          [value |-> Len(values'),
                           write |-> <<1 + Len(Newest(values').args),
                                       Newest(values').command>>
                                         \o Newest(values').args])
            /\ Newest(values').state = "pending"
            /\ _commandValues' = _commandValues
            /\ \A s \in DOMAIN sockets : sockets'[s].written = sockets[s].written
       /\ last'.op = "connect event" =>
            LET s == last'.socket
                n == Len(HandshakeWrites)
                k == Len(_pendingWrites)
            IN  /\ connection' = s
                /\ _pendingWrites' = <<>>
                /\ Len(sockets'[s].written) = n + k
                /\ Len(_commandValues') = Len(_commandValues) + n + k
                /\ \A i \in 1..k :
                       /\ sockets'[s].written[n + i] = _pendingWrites[i].write
                       /\ _commandValues'[Len(_commandValues) + n + i]
                              = _pendingWrites[i].value
                       /\ i > 1 => _pendingWrites[i - 1].value < _pendingWrites[i].value
       /\ (last'.op \in {"send", "monitor"} /\ connection # NoConnection) =>
            /\ _commandValues' = Append(_commandValues, Len(values'))
            /\ Len(sockets'[connection].written) = Len(sockets[connection].written) + 1
            /\ _pendingWrites' = _pendingWrites]_vars

\* Two calls were buffered, no handshake was needed, and the socket has just
\* connected: they are the pending-call queue, in issue order.
C2_Witness ==
    /\ last.op = "connect event"
    /\ password = "" /\ database = 0
    /\ _commandValues = <<1, 2>>
    /\ Len(sockets[connection].written) = 2
    /\ _pendingWrites = <<>>

\* C3: a transport error on an established connection rejects every call of
\* the pending-call queue with that error, oldest first, each once, and leaves
\* the queue empty.
C3_TransportErrorFailsQueue ==
    [][(last'.op = "error event" /\ connection # NoConnection) =>
         /\ Len(effects') = Len(_commandValues)
         /\ \A i \in DOMAIN _commandValues :
                /\ effects'[i] = Effect("reject", _commandValues[i], "", last'.reply.elems)
                /\ values[_commandValues[i]].state = "pending"
                /\ values'[_commandValues[i]].state = "rejected"
                /\ values'[_commandValues[i]].settles = 1
         /\ _commandValues' = <<>>]_vars

\* The transport failed with two calls pending, and both were rejected.
C3_Witness ==
    /\ last.op = "error event"
    /\ connection # NoConnection
    /\ Len(effects) = 2
    /\ effects[1].what = "reject" /\ effects[2].what = "reject"
    /\ effects[1].value < effects[2].value
    /\ _commandValues = <<>>

\* C4: once a socket has failed and closed, no call that send returned is
\* left unsettled, whether it had been written or was still buffered.
C4_NoCallLeftUnsettled ==
    last.op = "close event" =>
        \A v \in DOMAIN values : values[v].state # "pending"

\* C5: connect(), called by the caller or by a send without a connection,
\* while a connect result exists returns that same connect result and opens no
\* socket; the connect result in use is the one made with the newest socket.
C5_ConnectIsIdempotent ==
    [][/\ ((last'.op = "connect"
              \/ (last'.op \in {"send", "monitor"} /\ connection = NoConnection))
            /\ _connectValue # NoDeferred) =>
            /\ _connectValue' = _connectValue
            /\ sockets' = sockets
            /\ effects'[Len(effects')] = Effect("return", _connectValue.id, "", <<>>)
       /\ _connectValue' # NoDeferred => _connectValue'.id = Len(sockets')]_vars

\* connect() was called on the established first connection: there is still
\* one socket, and the first connect result was returned.
C5_Witness ==
    /\ last.op = "connect"
    /\ connection = 1
    /\ Len(sockets) = 1
    /\ effects = <<Effect("return", 1, "", <<>>)>>

\* C6: the first writes on every socket that connected are the handshake:
\* AUTH with the password if one is configured, then SELECT with the database
\* if it is not 0; nothing is written before the socket connects. The connect
\* result follows the AUTH and SELECT calls written there, and when it is
\* fulfilled its value is the pair of their results, OK standing for a step
\* that was not needed.
C6_HandshakeFirst ==
    /\ \A s \in DOMAIN sockets :
           LET w == sockets[s].written
               n == Len(HandshakeWrites)
           IN  /\ sockets[s].state = "connecting" => w = <<>>
               /\ sockets[s].state \in {"open", "ended"} => Len(w) >= n
               /\ w # <<>> => Len(w) >= n /\ SubSeq(w, 1, n) = HandshakeWrites
    /\ connection # NoConnection => _connectValue.state = "resolved"
    /\ _connectValue.state = "resolved" =>
           LET a == _connectValue.auth
               b == _connectValue.select
               p == ConnectPromise(Cur)
           IN  /\ password = "" <=> a = NoValue
               /\ database = 0 <=> b = NoValue
               /\ a # NoValue =>
                      /\ values[a].command = "AUTH" /\ values[a].args = <<password>>
                      /\ values[a].socket = _connectValue.id /\ values[a].pos = 1
               /\ b # NoValue =>
                      /\ values[b].command = "SELECT" /\ values[b].args = <<"2">>
                      /\ values[b].socket = _connectValue.id
                      /\ values[b].pos = Len(HandshakeWrites)
               /\ p.state = "fulfilled" =>
                      p.value = << IF a = NoValue THEN Status("OK") ELSE values[a].value,
                                   IF b = NoValue THEN Status("OK") ELSE values[b].value >>

\* With a password and a database configured, a call was buffered, the socket
\* connected, and AUTH and SELECT have both been answered.
C6_Witness ==
    /\ password = "secret" /\ database = 2
    /\ connection # NoConnection
    /\ sockets[connection].written =
           << <<2, "AUTH", "secret">>, <<2, "SELECT", "2">>, <<2, "GET", "foo">> >>
    /\ ConnectPromise(Cur).state = "fulfilled"
    /\ _commandValues = <<1>>

\* C7: a subscribe acknowledgement that arrives while a SUBSCRIBE call heads
\* the pending-call queue resolves that call and is emitted as an event; one
\* that arrives with no call pending is emitted as an event, in every
\* configuration.
C7_EveryAckEmitted ==
    [][(/\ last'.op = "reply"
        /\ last'.reply.type = "array"
        /\ last'.reply.elems[1] = "subscribe"
        /\ (_commandValues # <<>> => values[Head(_commandValues)].command = "SUBSCRIBE")) =>
         /\ Emits(effects') = <<EventOf(last'.reply)>>
         /\ Settles(effects') =
                IF _commandValues = <<>> THEN <<>>
                ELSE <<Effect("resolve", Head(_commandValues), "", last'.reply.elems)>>]_vars

\* C10: when the socket closes, the connect result and the connection are
\* cleared, every call of the pending-call queue is rejected with the closed
\* error, oldest first, the queue is empty, and the close event is emitted
\* after the last of them; a send that finds no connect result opens a new
\* socket and makes a new connect result.
C10_CloseFailsQueue ==
    [][/\ last'.op = "close event" =>
            LET k == Len(_commandValues)
            IN  /\ _connectValue' = NoDeferred
                /\ connection' = NoConnection
                /\ _commandValues' = <<>>
                /\ _pendingWrites' = _pendingWrites
                /\ Len(effects') = k + 1
                /\ \A i \in 1..k :
                       /\ effects'[i] = Effect("reject", _commandValues[i], "",
                                               <<"The connection was closed">>)
                       /\ values[_commandValues[i]].state = "pending"
                       /\ values'[_commandValues[i]].state = "rejected"
                /\ effects'[k + 1] = Effect("emit", NoValue, "close", <<>>)
       /\ (last'.op \in {"send", "monitor"} /\ _connectValue = NoDeferred) =>
            /\ Len(sockets') = Len(sockets) + 1
            /\ sockets'[Len(sockets')].state = "connecting"
            /\ _connectValue'.state = "pending"
            /\ _connectValue'.id = Len(sockets')
            /\ connection' = NoConnection]_vars

\* The socket closed with a call pending: the call was rejected, then close
\* was emitted.
C10_Witness ==
    /\ last.op = "close event"
    /\ Len(effects) >= 2
    /\ effects[1].what = "reject"
    /\ effects[Len(effects)].name = "close"
    /\ _commandValues = <<>>
    /\ _connectValue = NoDeferred

\* An array reply whose first element names a subscription-management reply.
SubscriptionReply(reply) ==
    /\ reply.type = "array"
    /\ reply.elems # <<>>
    /\ reply.elems[1] \in {"subscribe", "unsubscribe", "psubscribe", "punsubscribe"}

\* C11: a reply that finds the pending-call queue empty, is neither a message
\* or pmessage reply nor a subscription-management reply, and arrives with
\* monitor mode off is emitted as an error event that says Unexpected reply,
\* and nothing else happens: the connection, the connect result, the write
\* buffer, the pending-call queue, the calls and the sockets are unchanged.
C11_UnexpectedReplyIsError ==
    [][(/\ last'.op = "reply"
        /\ _commandValues = <<>>
        /\ ~MessageOrPmessage(last'.reply)
        /\ ~SubscriptionReply(last'.reply)
        /\ ~isMonitor) =>
         /\ effects' = <<Effect("emit", NoValue, "error",
                                <<"Unexpected reply">> \o last'.reply.elems)>>
         /\ connection' = connection
         /\ _connectValue' = _connectValue
         /\ _pendingWrites' = _pendingWrites
         /\ _commandValues' = <<>>
         /\ values' = values
         /\ sockets' = sockets]_vars

\* With monitor mode off, an OK arrived on the open connection while no call
\* was pending, and the error event was emitted.
C11_Witness ==
    /\ last.op = "reply"
    /\ last.reply = Status("OK")
    /\ ~isMonitor
    /\ connection # NoConnection
    /\ sockets[connection].state = "open"
    /\ _commandValues = <<>>
    /\ effects = <<Effect("emit", NoValue, "error", <<"Unexpected reply", "OK">>)>>

\* C12: when the idle timeout of a socket fires, the connect result, if it is
\* still pending, is rejected, and every call of the pending-call queue is
\* rejected and taken off the queue, as on any other transport error.
C12_TimeoutIsTransportError ==
    [][last'.op = "timeout event" =>
         /\ _connectValue.state = "pending" => _connectValue'.state = "rejected"
         /\ \A v \in Range(_commandValues) : values'[v].state = "rejected"
         /\ _commandValues' = <<>>]_vars

\* C13: when the first acknowledgement of a SUBSCRIBE call of two channels
\* has just fulfilled that call, the acknowledgement of its second channel,
\* arriving next, fulfils no call and takes none off the pending-call queue:
\* the calls pipelined behind the SUBSCRIBE stay pending for their own replies.
C13_LaterAckFulfilsNoCall ==
    [][(/\ last.op = "reply"
        /\ last.reply = Array(<<"subscribe", "chan1", "1">>)
        /\ Len(Settles(effects)) = 1
        /\ values[Settles(effects)[1].value].command = "SUBSCRIBE"
        /\ values[Settles(effects)[1].value].state = "fulfilled"
        /\ last'.op = "reply"
        /\ last'.reply = Array(<<"subscribe", "chan2", "2">>)) =>
         /\ Settles(effects') = <<>>
         /\ _commandValues' = _commandValues
         /\ \A v \in Range(_commandValues) : values'[v].state = "pending"]_vars

\* The sockets that were opened and have not closed.
Alive == {s \in DOMAIN sockets : sockets[s].state # "closed"}

\* C14: at most one socket is alive, connecting or connected and not yet
\* closed, at any time; it is the socket the connect result was made with, and
\* the connection, when set, is that socket.
C14_OneConnectionAlive ==
    /\ Cardinality(Alive) <= 1
    /\ \A s \in Alive : _connectValue # NoDeferred /\ _connectValue.id = s
    /\ connection # NoConnection => connection \in Alive

\* The first socket has closed, and a second one was opened and is connected.
C14_Witness ==
    /\ Len(sockets) = 2
    /\ sockets[1].state = "closed"
    /\ sockets[2].state = "open"
    /\ connection = 2

\* The calls of the write buffer, in order.
Buffered == [i \in DOMAIN _pendingWrites |-> _pendingWrites[i].value]

NoRepeats(queue) ==
    \A i, j \in DOMAIN queue : i # j => queue[i] # queue[j]

\* C15: in every reachable state each call has had at most one resolve or
\* reject, and is pending exactly when it has had none; no call is in the
\* write buffer and in the pending-call queue at once, none is twice in
\* either, and the calls in them are pending.
C15_SettledAtMostOnce ==
    /\ \A v \in DOMAIN values :
           /\ values[v].settles <= 1
           /\ values[v].state = "pending" <=> values[v].settles = 0
    /\ NoRepeats(_commandValues)
    /\ NoRepeats(Buffered)
    /\ Range(_commandValues) \cap Range(Buffered) = {}
    /\ \A v \in Range(_commandValues) \cup Range(Buffered) :
           values[v].state = "pending"

\* In raw mode, where no reply rejects, the only socket failed with a call
\* pending and has now closed: the error rejected the call, the close found
\* the queue empty and rejected nothing.
C15_Witness ==
    /\ returnBuffers
    /\ Len(sockets) = 1
    /\ last.op = "close event"
    /\ effects = <<Effect("emit", NoValue, "close", <<>>)>>
    /\ \E v \in DOMAIN values :
           values[v].state = "rejected" /\ values[v].settles = 1

\* The sockets that have failed and have not yet closed.
Failed == {s \in DOMAIN sockets : sockets[s].state = "errored"}

\* C16: the error handler clears the connection when the socket that is the
\* connection fails, and a send made after the error and before the socket
\* closes is appended to the write buffer: it is not put on the pending-call
\* queue and nothing is written to the failed socket.
C16_ErrorClearsConnection ==
    [][/\ (last'.op = "error event" /\ connection = last'.socket) =>
            connection' = NoConnection
       /\ (last'.op \in {"send", "monitor"} /\ Failed # {}) =>
            /\ Len(_pendingWrites') = Len(_pendingWrites) + 1
            /\ _pendingWrites'[Len(_pendingWrites')].value = Len(values')
            /\ _commandValues' = _commandValues
            /\ \A s \in Failed : sockets'[s].written = sockets[s].written]_vars

\* The monitor event of a reply.
MonitorEvent(reply) == Effect("emit", NoValue, "monitor", reply.elems)

\* C17: once the MONITOR call has been fulfilled on the first connection, the
\* client is in monitor mode, and every reply that is neither a message or
\* pmessage reply nor a subscription-management reply is emitted as a monitor
\* event and nothing else happens: no call is taken off the pending-call
\* queue and none is settled.
C17_MonitorRepliesAreEvents ==
    [][(/\ last'.op = "reply"
        /\ isMonitor
        /\ Len(sockets) = 1
        /\ sockets[1].state = "open"
        /\ \E v \in DOMAIN values :
               values[v].command = "MONITOR" /\ values[v].state = "fulfilled"
        /\ ~MessageOrPmessage(last'.reply)
        /\ ~SubscriptionReply(last'.reply)) =>
         /\ effects' = <<MonitorEvent(last'.reply)>>
         /\ _commandValues' = _commandValues
         /\ \A v \in Range(_commandValues) : values'[v].state = "pending"]_vars

\* The number of requests written, on all the sockets together.
Written ==
    LET sum[i \in 0..Len(sockets)] ==
            IF i = 0 THEN 0 ELSE sum[i - 1] + Len(sockets[i].written)
    IN  sum[Len(sockets)]

\* C18, as stated: in every reachable state the length of the pending-call
\* queue is the number of requests written minus the number of replies that
\* were routed to a call.
C18_QueueIsWrittenMinusRouted ==
    Len(_commandValues) = Written - routed

\* C18, amended: in every reachable state the length of the pending-call
\* queue is the number of requests written, minus the number of replies that
\* were routed to a call, minus the number of calls that a transport error or
\* a close took off the queue and rejected.
C18_QueueIsWrittenMinusRoutedMinusFlushed ==
    Len(_commandValues) = Written - routed - flushed

\* A reply settled a call, a transport error or a close rejected another, and
\* a call written since is on the queue.
C18_Witness ==
    /\ routed >= 1
    /\ flushed >= 1
    /\ Len(_commandValues) >= 1
    /\ Written = Len(_commandValues) + routed + flushed

\* C19: between handlers, the pending-call queue is empty whenever the
\* connection is not set, so that no call written on an earlier socket awaits
\* a reply of a later one, and the write buffer is empty whenever the
\* connection is set.
C19_QueuesFollowConnection ==
    /\ connection = NoConnection => _commandValues = <<>>
    /\ connection # NoConnection => _pendingWrites = <<>>
    /\ \A v \in Range(_commandValues) : values[v].socket = connection

\* In raw mode, where no reply rejects, the first socket has closed and its
\* call was rejected; a call sent since waits in the write buffer for the
\* second socket, and the queue is empty.
C19_Witness ==
    /\ returnBuffers
    /\ Len(sockets) = 2
    /\ sockets[1].state = "closed"
    /\ sockets[2].state = "connecting"
    /\ connection = NoConnection
    /\ _commandValues = <<>>
    /\ Len(_pendingWrites) = 1
    /\ values[1].state = "rejected"

\* The connect handler writes every buffered call in its own step, behind
\* the handshake, while the handshake calls are still pending.
FlushedWithHandshake ==
    last'.op = "connect event" =>
        LET s == last'.socket
            k == Len(_pendingWrites)
            w == sockets'[s].written
        IN  /\ _pendingWrites' = <<>>
            /\ Len(w) = Len(HandshakeWrites) + k
            /\ \A i \in 1..k :
                   /\ w[Len(HandshakeWrites) + i] = _pendingWrites[i].write
                   /\ _pendingWrites[i].value \in Range(_commandValues')
            /\ \A v \in {_connectValue'.auth, _connectValue'.select} \ {NoValue} :
                   values'[v].state = "pending"

\* An error reply arrives for the AUTH or SELECT call of the connect result,
\* which is still pending.
HandshakeErrorReply ==
    /\ last'.op = "reply"
    /\ last'.reply.type = "error"
    /\ _connectValue.state = "resolved"
    /\ ConnectPromise(Cur).state = "pending"
    /\ _commandValues # <<>>
    /\ Head(_commandValues) \in {_connectValue.auth, _connectValue.select}

\* The connect result is rejected with the reply, and the calls behind the
\* handshake call stay on the queue, pending.
ConnectRejectedWithReply ==
    /\ ConnectPromise(Cur)' = [state |-> "rejected", value |-> <<last'.reply>>]
    /\ _commandValues' = Tail(_commandValues)
    /\ \A v \in Range(_commandValues') : values'[v].state = "pending"

\* With the connect result rejected by the handshake, a reply that is no
\* error fulfils the oldest call of the queue.
StillFulfilled ==
    (/\ last'.op = "reply"
     /\ _connectValue.state = "resolved"
     /\ ConnectPromise(Cur).state = "rejected"
     /\ _commandValues # <<>>
     /\ last'.reply.type # "error"
     /\ ~MessageOrPmessage(last'.reply)) =>
        /\ values'[Head(_commandValues)].state = "fulfilled"
        /\ Settles(effects')
               = <<Effect("resolve", Head(_commandValues), "", last'.reply.elems)>>

\* C20, as stated: the connect handler writes the buffered calls in the same
\* step as AUTH and SELECT, without waiting for their replies; if the AUTH or
\* SELECT reply is then an error, the connect result is rejected with it, and
\* the buffered calls, already written, are still fulfilled by their own
\* replies.
C20_FlushDoesNotWaitForHandshake ==
    [][/\ FlushedWithHandshake
       /\ HandshakeErrorReply => ConnectRejectedWithReply
       /\ StillFulfilled]_vars

\* C20, amended: as stated, but the connect result is rejected with the error
\* reply of AUTH or SELECT when raw mode (returnBuffers) is off.
C20_FlushDoesNotWaitForHandshakeUnlessRaw ==
    [][/\ FlushedWithHandshake
       /\ (HandshakeErrorReply /\ ~returnBuffers) => ConnectRejectedWithReply
       /\ StillFulfilled]_vars

\* A call was buffered and written behind AUTH; AUTH was answered with an
\* error, which rejected the connect result, and the call has since been
\* fulfilled by its own reply.
C20_Witness ==
    /\ ~returnBuffers /\ password = "secret" /\ database = DefaultDatabase
    /\ Len(sockets) = 1
    /\ sockets[1].written = << <<2, "AUTH", "secret">>, <<2, "GET", "foo">> >>
    /\ _connectValue.state = "resolved"
    /\ ConnectPromise(Cur) = [state |-> "rejected", value |-> <<ErrorValue("ERR")>>]
    /\ values[1].command = "GET"
    /\ values[1].state = "fulfilled"
    /\ last.op = "reply"

====
